---------------------------- MODULE Spec2Model ----------------------------
(***************************************************************************)
(* BinarySpaceTree (fastlib/tree/spacetree.h) as a state machine.          *)
(*                                                                         *)
(* The model is of the checked (debug) build: DEBUG_ONLY statements run,   *)
(* DEBUG_POISON_PTR stores the poison pointer and a failing DEBUG_ASSERT   *)
(* ends the process (status "aborted").  Dereferencing a pointer that is   *)
(* not a constructed node ends the process too (status "crashed").         *)
(*                                                                         *)
(* The heap is a function from node identifiers to node objects; a pointer *)
(* is NULL, BIG_BAD_POINTER or a node identifier.                          *)
(***************************************************************************)
EXTENDS Integers, Sequences, FiniteSets, TLC

(***************************************************************************)
(* Bounds of the model.                                                    *)
(***************************************************************************)
\* node objects a client of the bare interface may construct (Spec)
FreeNodes == 3
\* largest ordinary begin_ value a client of the bare interface passes (Spec)
FreeBegin == 0
\* largest count_ value a client of the bare interface passes (Spec)
FreeCount == 1
\* heap capacity: node objects that can exist at once
MaxNodes == 10
\* nodes the tree builder allocates before it stops building 
MaxBuilt == 5
\* points of the dataset the builder lays its leaves over; a lookup asks for
\* a begin_q and a count_q up to as many
MaxPoints == 3
\* calls a client of the bare interface makes (Spec)
MaxCalls == 5
\* loads made from one saved file (SpecPersist)
MaxLoads == 2
\* nesting depth of a statistic beyond which set_children is not called again
MaxStatDepth == 3

(***************************************************************************)
(* Program constants.                                                      *)
(***************************************************************************)
\* the sentinel the constructor stores in begin_ and count_; any value of
\* index_t serves the model, this is the one base/debug.h defines
BIG_BAD_NUMBER == 2146666666
\* the null pointer
NULL == 0
\* the pointer DEBUG_POISON_PTR stores: not NULL and not an object
BIG_BAD_POINTER == -1
\* index_t is a 32-bit int
IntMax == 2147483647
\* file::CreateMagic("spacetree"), MAGIC_NUMBER(TDataset), MAGIC_NUMBER(TBound):
\* the values stand for whatever the three expressions evaluate to
MagicSpacetree == 100
MagicDataset == 1
MagicBound == 2

NodeIds == 1..MaxNodes

VARIABLES
  heap,      \* node identifier -> node object
  status,    \* "running", "aborted", "crashed", "failed", "destroyed"
  stream,    \* the values the serializer wrote, read back by the deserializer
  data,      \* the dataset the client built the tree over
  loaded,    \* the Dataset object the client hands to DeserializeAll
  ret,       \* the most recent lookup, save, load or delete and its outcome
  released,  \* node identifier -> number of times the object was deleted
  hist,      \* history: which calls have completed on each node
  saved,     \* history: the node stream was saved from, and by which call
  calls      \* number of calls made that the model keeps a budget of

vars == <<heap, status, stream, data, loaded, ret, released, hist, saved, calls>>

(***************************************************************************)
(* index_t arithmetic: 32-bit two's complement addition.  Signed overflow  *)
(* is undefined in C++; the wrapped sum is what the compiled comparison    *)
(* sees.  The cases are split so that no intermediate value leaves the     *)
(* 32-bit range.                                                           *)
(***************************************************************************)
Add32(a, b) ==
  IF a > 0 /\ b > 0 /\ a > IntMax - b
    THEN ((a - IntMax) - 1) + ((b - IntMax) - 1)
    ELSE IF a < 0 /\ b < 0 /\ a < ((-IntMax) - 1) - b
      THEN ((a + IntMax) + 1) + ((b + IntMax) + 1)
      ELSE a + b

(***************************************************************************)
(* The Statistic capability.  A statistic is kept as the term that says    *)
(* how it was computed, so that two statistics are equal exactly when they *)
(* were computed in the same way from the same inputs.                     *)
(***************************************************************************)
\* a default-constructed Statistic
NoStat == <<"none">>
\* stat_.Init(data, begin_, count_)
StatLeaf(d, b, c) == <<"leaf", d, b, c>>
\* stat_.Init(data, begin_, count_, left_->stat_, right_->stat_)
StatNode(d, b, c, ls, rs) == <<"node", d, b, c, ls, rs>>

RECURSIVE StatDepth(_)
StatDepth(s) ==
  IF s[1] = "node"
    THEN 1 + (IF StatDepth(s[5]) > StatDepth(s[6]) THEN StatDepth(s[5])
                                                     ELSE StatDepth(s[6]))
    ELSE 0

\* a default-constructed Bound
NoBound == 0

(***************************************************************************)
(* Node objects.                                                           *)
(***************************************************************************)
\* storage that holds no object
NoObject ==
  [alloc |-> FALSE, bound |-> NoBound, left |-> NULL, right |-> NULL,
   begin |-> 0, count |-> 0, stat |-> NoStat]

\* BinarySpaceTree(): the state of an object after its constructor
Constructed ==
  [alloc |-> TRUE, bound |-> NoBound,
   left |-> BIG_BAD_POINTER, right |-> BIG_BAD_POINTER,
   begin |-> BIG_BAD_NUMBER, count |-> BIG_BAD_NUMBER, stat |-> NoStat]

\* p points to a constructed object
IsNode(h, p) == p \in NodeIds /\ h[p].alloc

\* is_leaf(): !left_
is_leaf(h, n) == h[n].left = NULL

\* end(): begin_ + count_
end(h, n) == Add32(h[n].begin, h[n].count)

\* new BinarySpaceTree(): the storage the allocator hands out (NULL: none left)
NewNode(h) ==
  IF \E n \in NodeIds : ~h[n].alloc
    THEN CHOOSE n \in NodeIds : ~h[n].alloc /\ \A k \in NodeIds : k < n => h[k].alloc
    ELSE NULL

(***************************************************************************)
(* Init(begin_in, count_in)                                                *)
(***************************************************************************)
InitNode(h, n, b, c) ==
  IF h[n].begin # BIG_BAD_NUMBER
    THEN [heap |-> h, status |-> "aborted"]
    ELSE [heap |-> [h EXCEPT ![n].left = BIG_BAD_POINTER,
                             ![n].right = BIG_BAD_POINTER,
                             ![n].begin = b,
                             ![n].count = c],
          status |-> "running"]

(***************************************************************************)
(* set_children(data, left_in, right_in)                                   *)
(***************************************************************************)
\* the three DEBUG_ASSERTs of set_children
ChildrenAsserts(h, n) ==
  /\ h[n].count = Add32(h[h[n].left].count, h[h[n].right].count)
  /\ h[h[n].left].begin = h[n].begin
  /\ h[h[n].right].begin = Add32(h[n].begin, h[h[n].left].count)

set_children(h, d, n, l, r) ==
  LET h1 == [h EXCEPT ![n].left = l, ![n].right = r] IN
  IF ~is_leaf(h1, n)
    THEN IF ~IsNode(h1, l) \/ ~IsNode(h1, r)
           THEN [heap |-> h1, status |-> "crashed"]
           ELSE LET h2 == [h1 EXCEPT ![n].stat =
                             StatNode(d, h1[n].begin, h1[n].count,
                                      h1[l].stat, h1[r].stat)]
                IN  [heap |-> h2,
                     status |-> IF ChildrenAsserts(h2, n) THEN "running"
                                                          ELSE "aborted"]
    ELSE [heap |-> [h1 EXCEPT ![n].stat =
                      StatLeaf(d, h1[n].begin, h1[n].count)],
          status |-> "running"]

(***************************************************************************)
(* FindByBeginCount(begin_q, count_q), const and non-const alike.  depth   *)
(* is the call stack left: a walk that never ends exhausts it.             *)
(***************************************************************************)
\* FindByBeginCount with begin_q <= right_->begin_ for begin_q < right_->begin_
RECURSIVE FindByBeginCount_le(_, _, _, _, _)
FindByBeginCount_le(h, p, bq, cq, depth) ==
  IF ~IsNode(h, p) \/ depth = 0
    THEN [status |-> "crashed", res |-> NULL, at |-> p]
    ELSE IF ~(bq >= h[p].begin) \/ ~(cq <= h[p].count)
      THEN [status |-> "aborted", res |-> NULL, at |-> p]
      ELSE IF h[p].begin = bq /\ h[p].count = cq
        THEN [status |-> "running", res |-> p, at |-> p]
        ELSE IF is_leaf(h, p)
          THEN [status |-> "running", res |-> NULL, at |-> p]
          ELSE IF ~IsNode(h, h[p].right)
            THEN [status |-> "crashed", res |-> NULL, at |-> p]
            ELSE IF bq <= h[h[p].right].begin
              THEN FindByBeginCount_le(h, h[p].left, bq, cq, depth - 1)
              ELSE FindByBeginCount_le(h, h[p].right, bq, cq, depth - 1)

RECURSIVE FindByBeginCount(_, _, _, _, _)
FindByBeginCount(h, p, bq, cq, depth) ==
  IF ~IsNode(h, p) \/ depth = 0
    THEN [status |-> "crashed", res |-> NULL, at |-> p]
    ELSE IF ~(bq >= h[p].begin) \/ ~(cq <= h[p].count)
      THEN [status |-> "aborted", res |-> NULL, at |-> p]
      ELSE IF h[p].begin = bq /\ h[p].count = cq
        THEN [status |-> "running", res |-> p, at |-> p]
        ELSE IF is_leaf(h, p)
          THEN [status |-> "running", res |-> NULL, at |-> p]
          ELSE IF ~IsNode(h, h[p].right)
            THEN [status |-> "crashed", res |-> NULL, at |-> p]
            ELSE IF bq < h[h[p].right].begin
              THEN FindByBeginCount(h, h[p].left, bq, cq, depth - 1)
              ELSE FindByBeginCount(h, h[p].right, bq, cq, depth - 1)

(***************************************************************************)
(* Serialize(s): the values put, in order.  A bool is put as 0 or 1.       *)
(***************************************************************************)
\* Serialize that puts count_ before begin_
RECURSIVE Serialize_swapped(_, _, _)
Serialize_swapped(h, p, depth) ==
  IF ~IsNode(h, p) \/ depth = 0
    THEN [status |-> "crashed", out |-> <<>>]
    ELSE LET children == ~is_leaf(h, p)
             own == <<h[p].bound, h[p].count, h[p].begin,
                      IF children THEN 1 ELSE 0>>
         IN  IF ~children
               THEN [status |-> "running", out |-> own]
               ELSE LET l == Serialize_swapped(h, h[p].left, depth - 1) IN
                    IF l.status # "running"
                      THEN [status |-> l.status, out |-> own \o l.out]
                      ELSE LET r == Serialize_swapped(h, h[p].right, depth - 1) IN
                           [status |-> r.status, out |-> own \o l.out \o r.out]

RECURSIVE Serialize(_, _, _)
Serialize(h, p, depth) ==
  IF ~IsNode(h, p) \/ depth = 0
    THEN [status |-> "crashed", out |-> <<>>]
    ELSE LET children == ~is_leaf(h, p)
             own == <<h[p].bound, h[p].begin, h[p].count,
                      IF children THEN 1 ELSE 0>>
         IN  IF ~children
               THEN [status |-> "running", out |-> own]
               ELSE LET l == Serialize(h, h[p].left, depth - 1) IN
                    IF l.status # "running"
                      THEN [status |-> l.status, out |-> own \o l.out]
                      ELSE LET r == Serialize(h, h[p].right, depth - 1) IN
                           [status |-> r.status, out |-> own \o l.out \o r.out]

(***************************************************************************)
(* Deserialize(data, s): s is read from position pos on.  Get on an        *)
(* exhausted source fails the load (status "failed"); new with no storage  *)
(* left gives status "nomem".                                              *)
(***************************************************************************)
RECURSIVE Deserialize(_, _, _, _, _)
Deserialize(h, d, n, s, pos) ==
  IF h[n].begin # BIG_BAD_NUMBER
    THEN [heap |-> h, status |-> "aborted", pos |-> pos]
    ELSE IF pos + 3 > Len(s)
      THEN [heap |-> h, status |-> "failed", pos |-> pos]
      ELSE
        LET h1 == [h EXCEPT ![n].bound = s[pos],
                            ![n].begin = s[pos + 1],
                            ![n].count = s[pos + 2]]
            children == s[pos + 3] # 0
        IN
        IF ~children
          THEN LET m == set_children(h1, d, n, NULL, NULL) IN
               [heap |-> m.heap, status |-> m.status, pos |-> pos + 4]
          ELSE
            LET l == NewNode(h1) IN
            IF l = NULL
              THEN [heap |-> h1, status |-> "nomem", pos |-> pos + 4]
              ELSE
                LET a == Deserialize([h1 EXCEPT ![l] = Constructed], d, l, s, pos + 4) IN
                IF a.status # "running"
                  THEN a
                  ELSE
                    LET r == NewNode(a.heap) IN
                    IF r = NULL
                      THEN [heap |-> a.heap, status |-> "nomem", pos |-> a.pos]
                      ELSE
                        LET b == Deserialize([a.heap EXCEPT ![r] = Constructed],
                                             d, r, s, a.pos)
                        IN
                        IF b.status # "running"
                          THEN b
                          ELSE LET m == set_children(b.heap, d, n, l, r) IN
                               [heap |-> m.heap, status |-> m.status, pos |-> b.pos]

(***************************************************************************)
(* ~BinarySpaceTree() under delete p.  rel counts the deletes of each      *)
(* object.  delete of NULL does nothing; delete of a pointer that is no    *)
(* object, or of an object already deleted or being deleted, crashes.      *)
(***************************************************************************)
RECURSIVE Delete(_, _, _)
Delete(h, rel, p) ==
  IF p = NULL
    THEN [released |-> rel, status |-> "running"]
    ELSE IF ~IsNode(h, p)
      THEN [released |-> rel, status |-> "crashed"]
      ELSE IF rel[p] >= 1
        THEN [released |-> [rel EXCEPT ![p] = @ + 1], status |-> "crashed"]
        ELSE LET rel1 == [rel EXCEPT ![p] = 1] IN
             IF is_leaf(h, p)
               THEN [released |-> rel1, status |-> "running"]
               ELSE LET a == Delete(h, rel1, h[p].left) IN
                    IF a.status # "running"
                      THEN a
                      ELSE Delete(h, a.released, h[p].right)

(***************************************************************************)
(* SerializeAll(data, s): the magic number, the dataset, the structure.    *)
(* A Dataset is put as one value.                                          *)
(***************************************************************************)
\* file::CreateMagic("spacetree") + MAGIC_NUMBER(TDataset) + MAGIC_NUMBER(TBound)
Magic(ds, bd) == MagicSpacetree + ds + bd

SerializeAll(h, d, p) ==
  LET t == Serialize(h, p, MaxNodes + 1) IN
  [status |-> t.status, out |-> <<Magic(MagicDataset, MagicBound), d>> \o t.out]

(***************************************************************************)
(* DeserializeAll(data, s).  AssertMagic fails the load when the stored    *)
(* magic number is not the expected one (status "failed").                 *)
(***************************************************************************)
\* s->AssertMagic(magic), reading s[1]
AssertMagic(s, magic) == Len(s) >= 1 /\ s[1] = magic

\* DeserializeAll that reads the dataset before it checks the magic number
DeserializeAll_late(h, ld, n, s) ==
  IF Len(s) < 2
    THEN [heap |-> h, loaded |-> ld, status |-> "failed", pos |-> 1]
    ELSE IF ~AssertMagic(s, Magic(MagicDataset, MagicBound))
      THEN [heap |-> h, loaded |-> s[2], status |-> "failed", pos |-> 2]
      ELSE LET m == Deserialize(h, s[2], n, s, 3) IN
           [heap |-> m.heap, loaded |-> s[2], status |-> m.status, pos |-> m.pos]

DeserializeAll(h, ld, n, s) ==
  IF ~AssertMagic(s, Magic(MagicDataset, MagicBound))
    THEN [heap |-> h, loaded |-> ld, status |-> "failed", pos |-> 1]
    ELSE IF Len(s) < 2
      THEN [heap |-> h, loaded |-> ld, status |-> "failed", pos |-> 2]
      ELSE LET m == Deserialize(h, s[2], n, s, 3) IN
           [heap |-> m.heap, loaded |-> s[2], status |-> m.status, pos |-> m.pos]

(***************************************************************************)
(* The state after construction.  The client of the bare interface (Spec)  *)
(* has constructed FreeNodes node objects; the tree builder     *)
(* allocates its nodes as it goes.                                         *)
(***************************************************************************)
NoRet == [op |-> "none", node |-> NULL, bq |-> 0, cq |-> 0, res |-> NULL,
          at |-> NULL, pos |-> 0, d |-> 0, pre |-> 0]

NoSaved == [node |-> NULL, all |-> FALSE]

NoHist == [ranged |-> FALSE, finalized |-> FALSE]

Start(k) ==
  /\ heap = [n \in NodeIds |-> IF n <= k THEN Constructed ELSE NoObject]
  /\ status = "running"
  /\ stream = <<>>
  /\ data = 1
  /\ loaded = 0
  /\ ret = NoRet
  /\ released = [n \in NodeIds |-> 0]
  /\ hist = [n \in NodeIds |-> NoHist]
  /\ saved = NoSaved
  /\ calls = 0

Init == Start(FreeNodes)

InitBuilt == Start(0)

Live == {n \in NodeIds : heap[n].alloc}

(***************************************************************************)
(* The calls, as steps of the state machine.  Each takes the node and the  *)
(* arguments of the call.  No call is made once the process has ended.     *)
(***************************************************************************)
\* n->Init(b, c)
DoInit(n, b, c) ==
  /\ status = "running"
  /\ n \in Live
  /\ LET m == InitNode(heap, n, b, c) IN
       /\ heap' = m.heap
       /\ status' = m.status
       /\ hist' = IF m.status = "running"
                    THEN [hist EXCEPT ![n].ranged = TRUE]
                    ELSE hist
  /\ UNCHANGED <<stream, data, loaded, ret, released, saved>>

\* n->set_children(data, l, r)
DoSetChildren(n, l, r) ==
  /\ status = "running"
  /\ n \in Live
  /\ l \in Live \cup {NULL}
  /\ r \in Live \cup {NULL}
  /\ LET m == set_children(heap, data, n, l, r) IN
       /\ StatDepth(m.heap[n].stat) <= MaxStatDepth
       /\ heap' = m.heap
       /\ status' = m.status
       /\ hist' = IF m.status = "running"
                    THEN [hist EXCEPT ![n].finalized = TRUE]
                    ELSE hist
  /\ UNCHANGED <<stream, data, loaded, ret, released, saved>>

\* n->FindByBeginCount(bq, cq)
DoFind(n, bq, cq) ==
  /\ status = "running"
  /\ n \in Live
  /\ LET f == FindByBeginCount(heap, n, bq, cq, MaxNodes + 1) IN
       /\ status' = f.status
       /\ ret' = [NoRet EXCEPT !.op = "FindByBeginCount", !.node = n,
                               !.bq = bq, !.cq = cq, !.res = f.res,
                               !.at = f.at]
  /\ UNCHANGED <<heap, stream, data, loaded, released, hist, saved>>

\* n->Serialize(s) into an empty sink
DoSerialize(n) ==
  /\ status = "running"
  /\ n \in Live
  /\ LET t == Serialize(heap, n, MaxNodes + 1) IN
       /\ status' = t.status
       /\ stream' = t.out
       /\ saved' = IF t.status = "running" THEN [node |-> n, all |-> FALSE]
                                            ELSE NoSaved
  /\ ret' = [NoRet EXCEPT !.op = "Serialize", !.node = n]
  /\ UNCHANGED <<heap, data, loaded, released, hist>>

\* n->Deserialize(d, s) with s at the start of stream
DoDeserialize(n, d) ==
  /\ status = "running"
  /\ n \in Live
  /\ stream # <<>>
  /\ LET m == Deserialize(heap, d, n, stream, 1) IN
       /\ m.status # "nomem"
       /\ heap' = m.heap
       /\ status' = m.status
       /\ hist' = [k \in NodeIds |->
                     IF m.status = "running" /\ m.heap[k] # heap[k]
                       THEN [ranged |-> TRUE, finalized |-> TRUE]
                       ELSE hist[k]]
       /\ ret' = [NoRet EXCEPT !.op = "Deserialize", !.node = n,
                               !.pos = m.pos, !.d = d]
  /\ UNCHANGED <<stream, data, loaded, released, saved>>

\* n->SerializeAll(data, s) into an empty sink
DoSerializeAll(n) ==
  /\ status = "running"
  /\ n \in Live
  /\ LET t == SerializeAll(heap, data, n) IN
       /\ status' = t.status
       /\ stream' = t.out
       /\ saved' = IF t.status = "running" THEN [node |-> n, all |-> TRUE]
                                            ELSE NoSaved
  /\ ret' = [NoRet EXCEPT !.op = "SerializeAll", !.node = n]
  /\ UNCHANGED <<heap, data, loaded, released, hist>>

\* n->DeserializeAll(&loaded, s) with s at the start of stream
DoDeserializeAll(n) ==
  /\ status = "running"
  /\ n \in Live
  /\ LET m == DeserializeAll(heap, loaded, n, stream) IN
       /\ m.status # "nomem"
       /\ heap' = m.heap
       /\ loaded' = m.loaded
       /\ status' = m.status
       /\ hist' = [k \in NodeIds |->
                     IF m.status = "running" /\ m.heap[k] # heap[k]
                       THEN [ranged |-> TRUE, finalized |-> TRUE]
                       ELSE hist[k]]
       /\ ret' = [NoRet EXCEPT !.op = "DeserializeAll", !.node = n,
                               !.pos = m.pos, !.pre = loaded]
  /\ UNCHANGED <<stream, data, released, saved>>

\* delete n; the process then ends
DoDestroy(n) ==
  /\ status = "running"
  /\ n \in Live
  /\ LET m == Delete(heap, released, n) IN
       /\ released' = m.released
       /\ status' = IF m.status = "running" THEN "destroyed" ELSE m.status
  /\ ret' = [NoRet EXCEPT !.op = "delete", !.node = n]
  /\ UNCHANGED <<heap, stream, data, loaded, hist, saved>>

(***************************************************************************)
(* Spec: a client of the bare interface, which makes up to MaxCalls calls  *)
(* in any order, on any node, with any arguments.                          *)
(***************************************************************************)
FreeIds == 1..FreeNodes
FreeBegins == (0..FreeBegin) \cup {BIG_BAD_NUMBER}
FreeCounts == 0..FreeCount

Call(A) == calls < MaxCalls /\ calls' = calls + 1 /\ A

Next ==
  \/ \E n \in FreeIds, b \in FreeBegins, c \in FreeCounts : Call(DoInit(n, b, c))
  \/ \E n \in FreeIds, l, r \in FreeIds \cup {NULL} : Call(DoSetChildren(n, l, r))
  \/ \E n \in FreeIds : Call(DoSerialize(n))
  \/ \E n \in FreeIds : Call(DoDeserialize(n, data))
  \/ \E n \in FreeIds : Call(DoDestroy(n))

Spec == Init /\ [][Next]_vars

(***************************************************************************)
(* A client that keeps to the construction protocol.  The tree builder     *)
(* works bottom-up in post-order, as a recursive builder returns: it lays  *)
(* leaves over the dataset from left to right and joins the two subtrees   *)
(* it finished last under a new parent.  Every node gets Init once, its    *)
(* bound, and set_children once, children before parents.                  *)
(***************************************************************************)
\* finalized nodes that are the child of no node
Roots ==
  {n \in Live : /\ hist[n].finalized
                /\ \A m \in Live : heap[m].left # n /\ heap[m].right # n}

\* where the next leaf starts: after the points of the leaves laid so far
Frontier ==
  IF Live = {}
    THEN 0
    ELSE CHOOSE e \in {end(heap, n) : n \in Live} :
           \A n \in Live : end(heap, n) <= e

\* the builder works until the first lookup, save or delete
Building == ret = NoRet /\ Cardinality(Live) < MaxBuilt

\* the bounding region the builder computes for the points [b, b + c) of the
\* dataset, as the one value a Bound is put as: a different one per range
BoundOf(b, c) == 1 + b + (MaxPoints + 1) * c

\* n = new BinarySpaceTree(); n->Init(b, c); n->bound() = BoundOf(b, c);
\* n->set_children(data, NULL, NULL)
BuildLeaf(c) ==
  /\ status = "running"
  /\ Building
  /\ Frontier + c <= MaxPoints
  /\ LET n == NewNode(heap)
         b == Frontier
         m1 == InitNode([heap EXCEPT ![n] = Constructed], n, b, c)
         m2 == set_children([m1.heap EXCEPT ![n].bound = BoundOf(b, c)],
                            data, n, NULL, NULL)
     IN  /\ n # NULL
         /\ heap' = m2.heap
         /\ status' = IF m1.status # "running" THEN m1.status ELSE m2.status
         /\ hist' = [hist EXCEPT ![n] = [ranged |-> TRUE, finalized |-> TRUE]]
  /\ ret' = NoRet
  /\ UNCHANGED <<stream, data, loaded, released, saved, calls>>

\* the root the builder finished last among rs
LastOf(rs) == CHOOSE n \in rs : \A k \in rs : k <= n

\* r and l are the two subtrees finished last; n = new BinarySpaceTree();
\* n->Init(l->begin(), l->count() + r->count()); n->bound() = BoundOf(...);
\* n->set_children(data, l, r)
BuildJoin ==
  /\ status = "running"
  /\ Building
  /\ Cardinality(Roots) >= 2
  /\ LET r == LastOf(Roots)
         l == LastOf(Roots \ {r})
         n == NewNode(heap)
         m1 == InitNode([heap EXCEPT ![n] = Constructed], n, heap[l].begin,
                        Add32(heap[l].count, heap[r].count))
         m2 == set_children([m1.heap EXCEPT ![n].bound =
                              BoundOf(m1.heap[n].begin, m1.heap[n].count)],
                            data, n, l, r)
     IN  /\ n # NULL
         /\ heap' = m2.heap
         /\ status' = IF m1.status # "running" THEN m1.status ELSE m2.status
         /\ hist' = [hist EXCEPT ![n] = [ranged |-> TRUE, finalized |-> TRUE]]
  /\ ret' = NoRet
  /\ UNCHANGED <<stream, data, loaded, released, saved, calls>>

\* t = new BinarySpaceTree(); t->Deserialize(d, s)
LoadDeserialize(d) ==
  LET n == NewNode(heap) IN
    /\ status = "running"
    /\ calls < MaxLoads
    /\ calls' = calls + 1
    /\ n # NULL
    /\ stream # <<>>
    /\ LET m == Deserialize([heap EXCEPT ![n] = Constructed], d, n, stream, 1) IN
         /\ m.status # "nomem"
         /\ heap' = m.heap
         /\ status' = m.status
         /\ hist' = [k \in NodeIds |->
                       IF m.status = "running" /\ m.heap[k] # heap[k]
                         THEN [ranged |-> TRUE, finalized |-> TRUE]
                         ELSE hist[k]]
         /\ ret' = [NoRet EXCEPT !.op = "Deserialize", !.node = n,
                                 !.pos = m.pos, !.d = d]
    /\ UNCHANGED <<stream, data, loaded, released, saved>>

\* t = new BinarySpaceTree(); t->DeserializeAll(&loaded, s)
LoadDeserializeAll ==
  LET n == NewNode(heap) IN
    /\ status = "running"
    /\ calls < MaxLoads
    /\ calls' = calls + 1
    /\ n # NULL
    /\ stream # <<>>
    /\ LET m == DeserializeAll([heap EXCEPT ![n] = Constructed], loaded, n, stream) IN
         /\ m.status # "nomem"
         /\ heap' = m.heap
         /\ loaded' = m.loaded
         /\ status' = m.status
         /\ hist' = [k \in NodeIds |->
                       IF m.status = "running" /\ m.heap[k] # heap[k]
                         THEN [ranged |-> TRUE, finalized |-> TRUE]
                         ELSE hist[k]]
         /\ ret' = [NoRet EXCEPT !.op = "DeserializeAll", !.node = n,
                                 !.pos = m.pos, !.pre = loaded]
    /\ UNCHANGED <<stream, data, released, saved>>

\* the file comes from a program whose Dataset and Bound types are others:
\* its magic number is that of those types
ForeignTag(ds, bd) ==
  /\ status = "running"
  /\ saved.all
  /\ stream[1] = Magic(MagicDataset, MagicBound)
  /\ stream[1] # Magic(ds, bd)
  /\ stream' = [stream EXCEPT ![1] = Magic(ds, bd)]
  /\ ret' = [NoRet EXCEPT !.op = "ForeignTag"]
  /\ UNCHANGED <<heap, status, data, loaded, released, hist, saved, calls>>

Quiet(A) == A /\ UNCHANGED calls

Build ==
  \/ \E c \in 0..MaxPoints : BuildLeaf(c)
  \/ BuildJoin

(***************************************************************************)
(* SpecLookup: the builder, then a lookup in what it built, or a deletion.  *)
(* A lookup changes no node, so one made after another lookup reaches      *)
(* nothing that the first lookup made from the same state does not.        *)
(***************************************************************************)
NextLookup ==
  \/ Build
  \/ \E n \in NodeIds, bq, cq \in 0..MaxPoints :
       Quiet(ret = NoRet /\ DoFind(n, bq, cq))
  \/ \E n \in NodeIds : Quiet(ret = NoRet /\ n \in Roots /\ DoDestroy(n))

SpecLookup == InitBuilt /\ [][NextLookup]_vars

(***************************************************************************)
(* SpecPersist: the builder, then one of the built trees is saved and the   *)
(* file is loaded, any number of times, each time into a new node.         *)
(***************************************************************************)
NextPersist ==
  \/ Build
  \/ \E n \in NodeIds : Quiet(stream = <<>> /\ n \in Roots /\ DoSerialize(n))
  \/ \E n \in NodeIds : Quiet(stream = <<>> /\ n \in Roots /\ DoSerializeAll(n))
  \/ \E d \in {data, loaded} : LoadDeserialize(d)
  \/ LoadDeserializeAll
  \/ \E ds, bd \in 1..2 : ForeignTag(ds, bd)

SpecPersist == InitBuilt /\ [][NextPersist]_vars

(***************************************************************************)
(* What the claims speak of.                                               *)
(***************************************************************************)
\* the nodes reachable from the nodes of todo through left_ and right_
RECURSIVE Reach(_, _, _)
Reach(h, todo, seen) ==
  IF todo = {}
    THEN seen
    ELSE LET p == CHOOSE x \in todo : TRUE
             kids == {k \in {h[p].left, h[p].right} : IsNode(h, k)}
         IN  Reach(h, (todo \cup kids) \ (seen \cup {p}), seen \cup {p})

\* the nodes of the tree under m, m included
Subtree(h, m) == Reach(h, {m}, {})

\* the nodes under m form a tree: m is the child of none of them, every
\* other one is the child of one of them, once
TreeShaped(h, m) ==
  LET S == Subtree(h, m)
      Links == {<<p, side>> \in S \X {"left", "right"} : TRUE}
      Target(k) == IF k[2] = "left" THEN h[k[1]].left ELSE h[k[1]].right
  IN  \A n \in S :
        Cardinality({k \in Links : Target(k) = n}) = IF n = m THEN 0 ELSE 1

\* n has both children
Internal(h, n) == IsNode(h, h[n].left) /\ IsNode(h, h[n].right)

\* the contiguity invariants at an internal node n
Contiguous(h, n) ==
  /\ h[n].count = Add32(h[h[n].left].count, h[h[n].right].count)
  /\ h[h[n].left].begin = h[n].begin
  /\ h[h[n].right].begin = Add32(h[n].begin, h[h[n].left].count)

\* the tree under m is valid: every node has no child, or two and contiguity
ValidTree(h, m) ==
  \A n \in Subtree(h, m) :
    \/ h[n].left = NULL /\ h[n].right = NULL
    \/ Internal(h, n) /\ Contiguous(h, n)

\* every node of the tree under m covers at least one point
NonEmpty(h, m) == \A n \in Subtree(h, m) : h[n].count >= 1

\* the trees under a and b have the same shape, ranges and bounds
RECURSIVE SameTree(_, _, _, _)
SameTree(h, a, b, depth) ==
  /\ depth > 0
  /\ IsNode(h, a)
  /\ IsNode(h, b)
  /\ h[a].begin = h[b].begin
  /\ h[a].count = h[b].count
  /\ h[a].bound = h[b].bound
  /\ (h[a].left = NULL) = (h[b].left = NULL)
  /\ (h[a].right = NULL) = (h[b].right = NULL)
  /\ h[b].left # NULL => SameTree(h, h[a].left, h[b].left, depth - 1)
  /\ h[b].right # NULL => SameTree(h, h[a].right, h[b].right, depth - 1)

\* the statistic of n built bottom-up over dataset d: the base form at a
\* leaf, the combine form of the children's statistics elsewhere
RECURSIVE BottomUp(_, _, _, _)
BottomUp(h, n, d, depth) ==
  IF depth = 0 \/ ~IsNode(h, n)
    THEN NoStat
    ELSE IF h[n].left = NULL
      THEN StatLeaf(d, h[n].begin, h[n].count)
      ELSE StatNode(d, h[n].begin, h[n].count,
                    BottomUp(h, h[n].left, d, depth - 1),
                    BottomUp(h, h[n].right, d, depth - 1))

(***************************************************************************)
(* C1 (Spec), as claimed: while the process runs, every finalized node     *)
(* with two children other than itself, the three of them with their range *)
(* set, satisfies count == left.count + right.count, left.begin == begin   *)
(* and right.begin == begin + left.count.                                  *)
(***************************************************************************)
C1_AsClaimed ==
  status = "running" =>
    \A n \in Live :
      (/\ hist[n].finalized
       /\ Internal(heap, n)
       /\ Cardinality({n, heap[n].left, heap[n].right}) = 3
       /\ \A k \in {n, heap[n].left, heap[n].right} : hist[k].ranged)
      => Contiguous(heap, n)

(***************************************************************************)
(* C2 (SpecLookup): a lookup made on node m of a valid tree without empty  *)
(* nodes, for the begin and count of a node n of the tree under m, trips   *)
(* no assertion and returns n.                                             *)
(***************************************************************************)
C2_FindReturnsNode ==
  (/\ ret.op = "FindByBeginCount"
   /\ ValidTree(heap, ret.node)
   /\ NonEmpty(heap, ret.node))
  => \A n \in Subtree(heap, ret.node) :
       (heap[n].begin = ret.bq /\ heap[n].count = ret.cq)
         => (status = "running" /\ ret.res = n)

\* a lookup from the root of a tree of height two found a grandchild
C2_Witness ==
  /\ ret.op = "FindByBeginCount"
  /\ status = "running"
  /\ ValidTree(heap, ret.node)
  /\ NonEmpty(heap, ret.node)
  /\ ret.res \in Subtree(heap, ret.node) \ {ret.node}
  /\ ret.res \notin {heap[ret.node].left, heap[ret.node].right}
  /\ heap[ret.res].begin = ret.bq
  /\ heap[ret.res].count = ret.cq
  /\ ret.bq > heap[ret.node].begin

(***************************************************************************)
(* C3 (SpecLookup), as claimed: a lookup made on a root for a range inside *)
(* the root's range that is the range of no node of the tree returns NULL  *)
(* and trips no assertion.                                                 *)
(***************************************************************************)
C3_AsClaimed ==
  (/\ ret.op = "FindByBeginCount"
   /\ ret.node \in Roots
   /\ ValidTree(heap, ret.node)
   /\ ret.bq >= heap[ret.node].begin
   /\ ret.bq + ret.cq <= end(heap, ret.node)
   /\ \A n \in Subtree(heap, ret.node) :
        ~(heap[n].begin = ret.bq /\ heap[n].count = ret.cq))
  => (status = "running" /\ ret.res = NULL)

(***************************************************************************)
(* C4 (SpecLookup), as claimed: in a tree that satisfies the contiguity    *)
(* invariants no two nodes have the same begin and the same count.         *)
(***************************************************************************)
C4_AsClaimed ==
  \A m \in Roots :
    ValidTree(heap, m) =>
      \A a, b \in Subtree(heap, m) :
        a # b => ~(heap[a].begin = heap[b].begin /\ heap[a].count = heap[b].count)

(***************************************************************************)
(* C5 (Spec), as claimed: while the process runs, every finalized node has *)
(* both children or neither, so that is_leaf() holds exactly when both are *)
(* absent; set_children with one child is detected.                        *)
(***************************************************************************)
C5_AsClaimed ==
  status = "running" =>
    \A n \in Live :
      hist[n].finalized =>
        /\ (heap[n].left = NULL) = (heap[n].right = NULL)
        /\ is_leaf(heap, n) = (heap[n].left = NULL /\ heap[n].right = NULL)

(***************************************************************************)
(* C6 (SpecPersist): Deserialize of what Serialize wrote for a valid tree, *)
(* into a new node, completes, yields a tree of the same shape with the    *)
(* same begin, count and bound at every node and the bottom-up statistic   *)
(* at every node (that of the original when the dataset is the same), and  *)
(* reads exactly the values written.                                       *)
(***************************************************************************)
C6_RoundTrip ==
  (/\ ret.op = "Deserialize"
   /\ saved.node # NULL
   /\ ~saved.all
   /\ ValidTree(heap, saved.node))
  => /\ status = "running"
     /\ SameTree(heap, ret.node, saved.node, MaxNodes)
     /\ ret.pos = Len(stream) + 1
     /\ \A k \in Subtree(heap, ret.node) :
          heap[k].stat = BottomUp(heap, k, ret.d, MaxNodes)
     /\ ret.d = data => heap[ret.node].stat = heap[saved.node].stat

\* a tree of height two was saved and loaded back over the same dataset
C6_Witness ==
  /\ ret.op = "Deserialize"
  /\ status = "running"
  /\ ~saved.all
  /\ ret.d = data
  /\ Cardinality(Subtree(heap, saved.node)) >= 5
  /\ Cardinality(Subtree(heap, ret.node)) >= 5
  /\ Subtree(heap, ret.node) \cap Subtree(heap, saved.node) = {}
  /\ StatDepth(heap[ret.node].stat) >= 2

(***************************************************************************)
(* C7 (Spec), as claimed: once Init or Deserialize has set the range of a  *)
(* node, no step changes its begin or count.                               *)
(***************************************************************************)
C7_AsClaimed ==
  [][\A n \in NodeIds :
       hist[n].ranged =>
         /\ heap'[n].begin = heap[n].begin
         /\ heap'[n].count = heap[n].count]_vars

(***************************************************************************)
(* C8 (Spec), as claimed: once set_children has finalized a node whose     *)
(* range was set, to a begin other than BIG_BAD_NUMBER, no call that       *)
(* returns changes its begin, count or children.                           *)
(***************************************************************************)
C8_AsClaimed ==
  [][\A n \in NodeIds :
       (/\ hist[n].ranged
        /\ heap[n].begin # BIG_BAD_NUMBER
        /\ hist[n].finalized
        /\ status' = "running") =>
         /\ heap'[n].begin = heap[n].begin
         /\ heap'[n].count = heap[n].count
         /\ heap'[n].left = heap[n].left
         /\ heap'[n].right = heap[n].right]_vars

(***************************************************************************)
(* C9 (Spec), as claimed: delete of the root of a tree all of whose nodes  *)
(* are finalized and hold no poisoned pointer, each attached at one place,  *)
(* completes and releases every node attached to the tree once, and no     *)
(* other node.                                                             *)
(***************************************************************************)
C9_AsClaimed ==
  (/\ ret.op = "delete"
   /\ TreeShaped(heap, ret.node)
   /\ \A n \in Subtree(heap, ret.node) :
        /\ hist[n].finalized
        /\ heap[n].left = NULL \/ IsNode(heap, heap[n].left)
        /\ heap[n].right = NULL \/ IsNode(heap, heap[n].right))
  => /\ status = "destroyed"
     /\ \A n \in NodeIds :
          released[n] = IF n \in Subtree(heap, ret.node) THEN 1 ELSE 0

(***************************************************************************)
(* C10 (SpecPersist): DeserializeAll checks the magic number first.  When  *)
(* the stored one is not the expected one the load fails, the node stays   *)
(* as constructed, no node is allocated for it and the client's dataset is *)
(* as before; when it is the expected one, the dataset is read next and    *)
(* the structure after it, to the end of the file.                         *)
(***************************************************************************)
C10_MagicCheckedFirst ==
  ret.op = "DeserializeAll" =>
    IF stream[1] # Magic(MagicDataset, MagicBound)
      THEN /\ status = "failed"
           /\ heap[ret.node] = Constructed
           /\ \A k \in NodeIds : k > ret.node => ~heap[k].alloc
           /\ loaded = ret.pre
      ELSE /\ status = "running"
           /\ loaded = stream[2]
           /\ heap[ret.node].bound = stream[3]
           /\ heap[ret.node].begin = stream[4]
           /\ heap[ret.node].count = stream[5]
           /\ heap[ret.node].stat[2] = stream[2]
           /\ SameTree(heap, ret.node, saved.node, MaxNodes)
           /\ ret.pos = Len(stream) + 1

\* a file whose magic number is another program's was refused, and the
\* dataset it holds is not the one the client's Dataset object has
C10_Witness ==
  /\ ret.op = "DeserializeAll"
  /\ saved.all
  /\ stream[1] # Magic(MagicDataset, MagicBound)
  /\ status = "failed"
  /\ stream[2] # loaded

=============================================================================
